---- MODULE Spec2Model ----
(***************************************************************************)
(* Insight-generation pipeline of fintrekapi:                              *)
(*   core/management/commands/generate_daily_insight.py  (Command)         *)
(*   core/views.py  (GeneratePersonalInsightView)                          *)
(* and the REST endpoints of core/views.py that list Insights and keep     *)
(* transactions, monthly budgets and savings goals.                        *)
(*                                                                         *)
(* Text is modelled as a sequence of one-character strings, so that        *)
(* split, strip, the whitespace regex and slicing are computed as Python   *)
(* computes them.  Numbers shown in text are rendered digit by digit.      *)
(* A Python call that may raise is an outcome record [exc, val, calls];    *)
(* try/except is a test of exc.                                            *)
(***************************************************************************)
EXTENDS Integers, Sequences, FiniteSets, TLC

VARIABLES
    is_active,      \* User.is_active of every stored user
    insights,       \* the Insight table, in date_posted order
    pc,             \* position of the running Command.handle
    arg,            \* kwargs.get('user') of the running invocation
    origin,         \* "cli", or the username of the HTTP caller
    external_data,  \* handle's local external_data
    users,          \* handle's evaluated queryset of active users
    idx,            \* position of handle's for loop in users
    calls,          \* upstream calls made by the running invocation
    steps,          \* per processed user: what each pipeline stage was given and did
    log,            \* stderr / logger.error lines of the running invocation
    response,       \* last response of GeneratePersonalInsightView.create
    startLen,       \* number of Insight rows when the invocation started
    answers,        \* what the upstream services answered to this invocation
    fin,            \* input drawn for a stand-alone function run
    fout,           \* result of the stand-alone function run
    cache,          \* Django's cache: key -> value, entries within their timeout
    transaction_objects,  \* Transaction.objects: the Transaction table
    budgets,        \* the MonthlyBudget table
    goal,           \* the SavingsGoal row of each user
    reply           \* last response of a REST endpoint of core/views.py

vars == <<is_active, insights, pc, arg, origin, external_data, users, idx,
          calls, steps, log, response, startLen, answers, fin, fout,
          cache, transaction_objects, budgets, goal, reply>>

webVars == <<cache, transaction_objects, budgets, goal, reply>>

pipelineVars == <<is_active, insights, pc, arg, origin, external_data, users,
                  idx, calls, steps, log, response, startLen, answers>>

-----------------------------------------------------------------------------
(* Text helpers *)

Rep(c, n) == [i \in 1..n |-> c]

\* Python's str.strip() and the regex class \s
IsSpace(c) == c \in {" ", "\t", "\r", "\n"}

\* kwargs.get('user') when --user was not given
None == "<None>"

\* Python truthiness of kwargs.get('user') (None and '' are falsy) and of a str
TruthyArg(a) == a # None /\ a # ""
NonEmpty(s) == Len(s) > 0

DigitChars == <<"0", "1", "2", "3", "4", "5", "6", "7", "8", "9">>

\* str.format of a non-negative integer
RECURSIVE Str(_)
Str(n) == IF n < 10 THEN <<DigitChars[n + 1]>>
          ELSE Str(n \div 10) \o <<DigitChars[(n % 10) + 1]>>

\* title.strip(): the text between the first and the last non-space character
strip(s) ==
    IF \A i \in 1..Len(s) : IsSpace(s[i]) THEN <<>>
    ELSE LET a == CHOOSE i \in 1..Len(s) :
                      ~IsSpace(s[i]) /\ \A j \in 1..(i - 1) : IsSpace(s[j])
             b == CHOOSE i \in 1..Len(s) :
                      ~IsSpace(s[i]) /\ \A j \in (i + 1)..Len(s) : IsSpace(s[j])
         IN  SubSeq(s, a, b)

\* re.sub(r'\s+', ' ', s) on s[lo..hi]: every maximal run of whitespace becomes
\* one space (the first character of a run is replaced, the others dropped)
RECURSIVE SubSpaces(_, _, _)
SubSpaces(s, lo, hi) ==
    IF lo > hi THEN <<>>
    ELSE IF lo = hi
         THEN IF ~IsSpace(s[lo]) THEN <<s[lo]>>
              ELSE IF lo > 1 /\ IsSpace(s[lo - 1]) THEN <<>> ELSE <<" ">>
         ELSE LET mid == (lo + hi) \div 2
              IN  SubSpaces(s, lo, mid) \o SubSpaces(s, mid + 1, hi)

\* re.sub(r'\s\s', ' ', s): whitespace replaced pair by pair, an unpaired
\* last character of a run left as it is
RunStart(s, i) ==
    CHOOSE p \in 1..i :
        /\ \A j \in p..i : IsSpace(s[j])
        /\ p = 1 \/ ~IsSpace(s[p - 1])

RECURSIVE SubPairs(_, _, _)
SubPairs(s, lo, hi) ==
    IF lo > hi THEN <<>>
    ELSE IF lo = hi
         THEN IF ~IsSpace(s[lo]) THEN <<s[lo]>>
              ELSE IF (lo - RunStart(s, lo)) % 2 = 1 THEN <<>>
              ELSE IF lo < Len(s) /\ IsSpace(s[lo + 1]) THEN <<" ">>
              ELSE <<s[lo]>>
         ELSE LET mid == (lo + hi) \div 2
              IN  SubPairs(s, lo, mid) \o SubPairs(s, mid + 1, hi)

re_sub_space_pairs(s) == SubPairs(s, 1, Len(s))

re_sub_spaces(s) == SubSpaces(s, 1, Len(s))

\* generated_text.split('\n')
RECURSIVE split_newline(_)
split_newline(s) ==
    LET nl == {i \in 1..Len(s) : s[i] = "\n"}
    IN  IF nl = {} THEN <<s>>
        ELSE LET p == CHOOSE i \in nl : \A j \in nl : i <= j
             IN  <<SubSeq(s, 1, p - 1)>>
                 \o split_newline(SubSeq(s, p + 1, Len(s)))

\* '\n'.join(lines)
RECURSIVE join_newline(_)
join_newline(lines) ==
    IF lines = <<>> THEN <<>>
    ELSE IF Len(lines) = 1 THEN lines[1]
    ELSE lines[1] \o <<"\n">> \o join_newline(Tail(lines))

-----------------------------------------------------------------------------
(* Outcomes of calls that may raise *)

Ret(v) == [exc |-> FALSE, val |-> v, calls |-> <<>>]
Raised == [exc |-> TRUE, val |-> 0, calls |-> <<>>]
WithCall(name, o) == [o EXCEPT !.calls = <<name>> \o @]

-----------------------------------------------------------------------------
(* External Context Fetcher *)

HTTP_OK == 200

\* fetch_inflation_rate_africa: res is what the RapidAPI endpoint answers.
\*   res.conn   "ok" | "error"       (request/getresponse/read/decode raises)
\*   res.status HTTP status          (never read by the code)
\*   res.json   "object" | "array" | "invalid"
\*   res.has_rate, res.rate          ("rate" key of a JSON object)
InflationBody(res) ==
    IF res.conn = "error" THEN Raised
    ELSE IF res.json = "invalid" THEN Raised
    ELSE IF res.json = "object" /\ res.has_rate THEN Ret(res.rate)
    ELSE Ret(0)

fetch_inflation_rate_africa(res) ==
    LET o == WithCall("inflation", InflationBody(res))
    IN  IF o.exc THEN [o EXCEPT !.exc = FALSE, !.val = 0] ELSE o

\* Keys of "Weekly Time Series" are ISO dates "YYYY-MM-DD"; a key is the
\* tuple <<Y, M, D>> of its zero-padded fields, and Python's max() over the
\* strings is the lexicographic maximum of the tuples.
LexLeq(a, b) ==
    \/ a[1] < b[1]
    \/ a[1] = b[1] /\ a[2] < b[2]
    \/ a[1] = b[1] /\ a[2] = b[2] /\ a[3] <= b[3]

MaxKey(keys) == CHOOSE k \in keys : \A j \in keys : LexLeq(j, k)

\* fallback_to_polygon_api: sec is what Polygon answers.
\*   sec.conn, sec.status, sec.json ("object" | "invalid")
\*   sec.has_results, sec.results: sequence of [has_c, c]
PolygonBody(sec) ==
    IF sec.conn = "error" THEN Raised
    ELSE IF sec.status = HTTP_OK
         THEN IF sec.json = "invalid" THEN Raised
              ELSE IF sec.has_results /\ Len(sec.results) > 0
                   THEN Ret(IF sec.results[1].has_c THEN sec.results[1].c ELSE 0)
                   ELSE Ret(0)
         ELSE Ret(0)

fallback_to_polygon_api(sec) ==
    LET o == WithCall("polygon", PolygonBody(sec))
    IN  IF o.exc THEN [o EXCEPT !.exc = FALSE, !.val = 0] ELSE o

\* Lines 72-81 of fetch_stock_market_index: the Alpha Vantage attempt.
\*   prim.conn, prim.status, prim.json, prim.has_series,
\*   prim.series: function from date keys to [close_ok, close]
\* val = <<TRUE, close>> on success, <<FALSE, 0>> when the code takes one of
\* its two "return self.fallback_to_polygon_api()" branches without raising.
AlphaVantageBody(prim) ==
    IF prim.conn = "error" THEN Raised
    ELSE IF prim.status = HTTP_OK
         THEN IF prim.json = "invalid" THEN Raised
              ELSE IF prim.has_series
                   THEN IF DOMAIN prim.series = {} THEN Raised   \* max() of nothing
                        ELSE LET e == prim.series[MaxKey(DOMAIN prim.series)]
                             IN  IF e.close_ok THEN Ret(<<TRUE, e.close>>)
                                 ELSE Raised                     \* KeyError / float()
                   ELSE Ret(<<FALSE, 0>>)
         ELSE Ret(<<FALSE, 0>>)

\* fetch_stock_market_index falling back only from its except clause
fetch_stock_market_index_except_only(prim, sec) ==
    LET p == WithCall("alphavantage", AlphaVantageBody(prim))
    IN  IF ~p.exc
        THEN [p EXCEPT !.val = IF p.val[1] THEN p.val[2] ELSE 0]
        ELSE LET f == fallback_to_polygon_api(sec)
             IN  [f EXCEPT !.calls = p.calls \o @]

fetch_stock_market_index(prim, sec) ==
    LET p == WithCall("alphavantage", AlphaVantageBody(prim))
    IN  IF ~p.exc /\ p.val[1]
        THEN [p EXCEPT !.val = p.val[2]]
        ELSE LET f == fallback_to_polygon_api(sec)
             IN  [f EXCEPT !.calls = p.calls \o @]

EmptyDict == [k \in {} |-> 0]

fetch_external_data(infl, prim, sec) ==
    LET i == fetch_inflation_rate_africa(infl)
        s == IF i.exc THEN Raised ELSE fetch_stock_market_index(prim, sec)
    IN  IF i.exc \/ s.exc
        THEN [exc |-> FALSE, val |-> EmptyDict, calls |-> i.calls \o s.calls]
        ELSE [exc |-> FALSE,
              val |-> [k \in {"inflation_rate", "stock_index"} |->
                          IF k = "inflation_rate" THEN i.val ELSE s.val],
              calls |-> i.calls \o s.calls]

-----------------------------------------------------------------------------
(* Insight Recorder: title normalisation *)

TitleLimit == 200
TitleCut == 197
Ellipsis == <<".", ".", ".">>

\* truncate_title without the length test of line 200
truncate_title_uncut(title) == re_sub_spaces(strip(title))

\* truncate_title cutting at the limit itself before adding the ellipsis
truncate_title_cut_at_limit(title) ==
    LET clean_title == re_sub_spaces(strip(title))
    IN  IF Len(clean_title) > TitleLimit
        THEN SubSeq(clean_title, 1, TitleLimit) \o Ellipsis
        ELSE clean_title

truncate_title(title) ==
    LET clean_title == re_sub_spaces(strip(title))
    IN  IF Len(clean_title) > TitleLimit
        THEN SubSeq(clean_title, 1, TitleCut) \o Ellipsis
        ELSE clean_title

-----------------------------------------------------------------------------
(* Metrics Aggregator *)

\* timedelta(days=30)
WindowDays == 30

UpperChars == <<"A", "B", "C", "D", "E", "F", "G", "H", "I", "J", "K", "L", "M",
                "N", "O", "P", "Q", "R", "S", "T", "U", "V", "W", "X", "Y", "Z">>
LowerChars == <<"a", "b", "c", "d", "e", "f", "g", "h", "i", "j", "k", "l", "m",
                "n", "o", "p", "q", "r", "s", "t", "u", "v", "w", "x", "y", "z">>

\* Case folding of the icontains lookup
Lower(c) ==
    IF \E i \in 1..26 : UpperChars[i] = c
    THEN LowerChars[CHOOSE i \in 1..26 : UpperChars[i] = c]
    ELSE c

LowerText(s) == [i \in 1..Len(s) |-> Lower(s[i])]

\* name__icontains=keyword
icontains(name, keyword) ==
    \E i \in 0..(Len(name) - Len(keyword)) :
        SubSeq(LowerText(name), i + 1, i + Len(keyword)) = LowerText(keyword)

KwIncome == <<"i", "n", "c", "o", "m", "e">>
KwExpense == <<"e", "x", "p", "e", "n", "s", "e">>
KwSavings == <<"s", "a", "v", "i", "n", "g", "s">>
KwInvestment == <<"i", "n", "v", "e", "s", "t", "m", "e", "n", "t">>

\* Category.objects.filter(user=user, name__icontains=kw).values_list('id')
\* categories: function from Category id to [user, name]
CategoryIds(categories, user, keyword) ==
    {c \in DOMAIN categories :
        categories[c].user = user /\ icontains(categories[c].name, keyword)}

RECURSIVE SumAmounts(_)
SumAmounts(rows) ==
    IF rows = {} THEN 0
    ELSE LET t == CHOOSE r \in rows : TRUE
         IN  t.amount + SumAmounts(rows \ {t})

\* .aggregate(total=Sum('amount'))['total']: None (<<>>) over no rows
AggregateSum(rows) == IF rows = {} THEN <<>> ELSE <<SumAmounts(rows)>>

\* "x or 0": None and a zero sum are falsy
OrZero(x) == IF x = <<>> \/ x = <<0>> THEN 0 ELSE x[1]

\* Transaction.objects.filter(user=user, category__id__in=ids,
\*                            date__gte=thirty_days_ago)
\* transactions: set of [id, user, category, amount, date], date a day number
BucketRows(transactions, user, ids, thirty_days_ago) ==
    {t \in transactions :
        t.user = user /\ t.category \in ids /\ t.date >= thirty_days_ago}

BucketTotal(transactions, user, ids, thirty_days_ago) ==
    OrZero(AggregateSum(BucketRows(transactions, user, ids, thirty_days_ago)))

\* Decimal quotients are held as reduced fractions num/den with den > 0.
RECURSIVE Gcd(_, _)
Gcd(a, b) == IF b = 0 THEN a ELSE Gcd(b, a % b)

Abs(n) == IF n < 0 THEN 0 - n ELSE n

Frac(n, d) ==
    LET g == Gcd(Abs(n), Abs(d))
        s == IF d < 0 THEN 0 - 1 ELSE 1
    IN  [num |-> (s * n) \div g, den |-> (s * d) \div g]

Whole(n) == [num |-> n, den |-> 1]

\* a / b: raises on a zero divisor
Div(a, b) == IF b = 0 THEN Raised ELSE Ret(Frac(a, b))

\* the ratio left as a fraction of one, not scaled to a percentage
Mul_unscaled(q, n) == q

\* q * n
Mul(q, n) == Frac(q.num * n, q.den)

\* "a / b * 100" without the "if total_income > 0" guard
PercentUnguarded(a, b) ==
    LET q == Div(a, b)
    IN  IF q.exc THEN Raised ELSE Ret(Mul(q.val, 100))

\* "(a / b * 100) if b > 0 else 0"  (236, 237)
PercentIfPositive(a, b) ==
    IF b > 0
    THEN LET q == Div(a, b)
         IN  IF q.exc THEN Raised ELSE Ret(Mul(q.val, 100))
    ELSE Ret(Whole(0))

\* calculate_user_financial_metrics (207-248); today is timezone.now().date()
calculate_user_financial_metrics(user, store, today) ==
    LET thirty_days_ago == today - WindowDays
        income_categories == CategoryIds(store.categories, user, KwIncome)
        expense_categories == CategoryIds(store.categories, user, KwExpense)
        savings_categories == CategoryIds(store.categories, user, KwSavings)
        investment_categories ==
            CategoryIds(store.categories, user, KwInvestment)
        total_income == BucketTotal(store.transactions, user,
                                    income_categories, thirty_days_ago)
        total_expenses == BucketTotal(store.transactions, user,
                                      expense_categories, thirty_days_ago)
        total_savings == BucketTotal(store.transactions, user,
                                     savings_categories, thirty_days_ago)
        total_investments == BucketTotal(store.transactions, user,
                                         investment_categories, thirty_days_ago)
        net_income == total_income - total_expenses
        savings_rate == PercentIfPositive(total_savings, total_income)
        debt_to_income_ratio ==
            PercentIfPositive(total_expenses - total_savings, total_income)
    IN  IF savings_rate.exc \/ debt_to_income_ratio.exc THEN Raised
        ELSE Ret([username |-> user,
                  total_income |-> total_income,
                  total_expenses |-> total_expenses,
                  total_savings |-> total_savings,
                  total_investments |-> total_investments,
                  savings_rate |-> savings_rate.val,
                  net_income |-> net_income,
                  debt_to_income_ratio |-> debt_to_income_ratio.val])

-----------------------------------------------------------------------------
(* Narrative Generator and Fallback Narrative *)

\* dict.get(key, 'N/A') as it is interpolated into an f-string
GetShown(d, k) == IF k \in DOMAIN d THEN Str(d[k]) ELSE <<"N", "/", "A">>

FallbackTitle ==
    <<"E","s","s","e","n","t","i","a","l"," ",
      "F","i","n","a","n","c","i","a","l"," ",
      "W","e","l","l","n","e","s","s"," ","T","i","p","s">>

\* The f-string of lines 297-324; the fixed paragraphs are one token each.
generate_fallback_insight(metrics, ext) ==
    [title |-> FallbackTitle,
     content |-> <<"<principles 1-4>", "Current Inflation Rate: ">>
                 \o GetShown(ext, "inflation_rate")
                 \o <<"%", "Stock Market Index: ">>
                 \o GetShown(ext, "stock_index")
                 \o <<"<remember>">>]

\* '{x:.2f}' of a fraction: two decimals, rounded half to even
Fmt2(q) ==
    LET a == Abs(q.num) * 100
        f == a \div q.den
        r == a % q.den
        cents == IF 2 * r > q.den \/ (2 * r = q.den /\ f % 2 = 1)
                 THEN f + 1 ELSE f
        frac == cents % 100
    IN  (IF q.num < 0 THEN <<"-">> ELSE <<>>)
        \o Str(cents \div 100) \o <<".">>
        \o <<DigitChars[(frac \div 10) + 1], DigitChars[(frac % 10) + 1]>>

\* The f-string of lines 254-278; the fixed instructions are one token each.
Prompt(metrics, ext) ==
    <<"Generate a personalized financial insight for ", metrics.username,
      "Monthly Income: $">> \o Fmt2(Whole(metrics.total_income))
    \o <<"Monthly Expenses: $">> \o Fmt2(Whole(metrics.total_expenses))
    \o <<"Net Monthly Income: $">> \o Fmt2(Whole(metrics.net_income))
    \o <<"Monthly Savings: $">> \o Fmt2(Whole(metrics.total_savings))
    \o <<"Monthly Investments: $">> \o Fmt2(Whole(metrics.total_investments))
    \o <<"Savings Rate: ">> \o Fmt2(metrics.savings_rate)
    \o <<"%", "Debt-to-Income Ratio: ">> \o Fmt2(metrics.debt_to_income_ratio)
    \o <<"%", "Inflation Rate: ">> \o GetShown(ext, "inflation_rate")
    \o <<"%", "Stock Market Index: ">> \o GetShown(ext, "stock_index")
    \o <<"<instructions 1-5>">>

\* What model.generate_content(prompt) does:
\*   kind "raises"        the call raises
\*   kind "no_candidates" it returns a response whose candidates/parts are
\*                        empty, so response.candidates[0]... raises
\*   kind "text"          it returns a response carrying text
GenerationBody(resp) ==
    IF resp.kind # "text" THEN Raised
    ELSE LET lines == split_newline(resp.text)
         IN  Ret([title |-> lines[1], content |-> join_newline(Tail(lines))])

\* generate_personalized_insight without its except clause
generate_personalized_insight_unguarded(resp, metrics, ext) ==
    WithCall("genai", GenerationBody(resp))

generate_personalized_insight(resp, metrics, ext) ==
    LET o == WithCall("genai", GenerationBody(resp))
    IN  IF o.exc
        THEN [o EXCEPT !.exc = FALSE,
                       !.val = generate_fallback_insight(metrics, ext)]
        ELSE o

-----------------------------------------------------------------------------
(* Stored users *)

UserOrder == <<"alice", "bob", "carol">>
UserNames == {UserOrder[i] : i \in 1..Len(UserOrder)}
Ghost == "ghost"      \* a username no stored user has

\* User.objects.filter(is_active=True), evaluated
ActiveUsers(act) == SelectSeq(UserOrder, LAMBDA u : act[u])

\* User.objects.get(username=...)
GetUser(username) == IF username \in UserNames THEN Ret(username) ELSE Raised

-----------------------------------------------------------------------------
(* One user's pipeline: metrics, narrative, normalisation, Insight row *)

\* How the call of model.generate_content and the parsing of its response
\* went, as seen from inside generate_personalized_insight's try block
GenerationSeen(resp) ==
    IF GenerationBody(resp).exc THEN "raised"
    ELSE IF resp.text = <<>> THEN "empty" ELSE "text"

InsightRow(title, content, user, automated) ==
    [title |-> title, content |-> content, user |-> user,
     is_automated |-> automated]

\* The try-body shared, line for line, by handle's loop (150-163) and
\* generate_user_insight (174-187).  metricsRaises: the ORM queries of
\* calculate_user_financial_metrics raise; createRaises: Insight.objects.create
\* raises.  step records what each stage was given and returned.
PipelineBody(user, resp, ext, automated, metricsRaises, createRaises) ==
    LET none == [exc |-> TRUE, rows |-> <<>>, calls |-> <<>>,
                 step |-> [user |-> user, exc |-> TRUE, metrics |-> "raised",
                           generation |-> "none", ext |-> <<>>,
                           narrative |-> <<>>, create |-> "none",
                           automated |-> automated]]
    IN
    IF metricsRaises THEN none
    ELSE
      LET metrics == [username |-> user]
          g == generate_personalized_insight(resp, metrics, ext)
          given == [none EXCEPT !.calls = g.calls,
                                !.step.metrics = "returned",
                                !.step.generation = GenerationSeen(resp),
                                !.step.ext = <<ext>>]
      IN
      IF g.exc THEN given
      ELSE
        LET insight_title == truncate_title(g.val.title)
            insight_content == g.val.content
            made == [given EXCEPT !.step.narrative = <<g.val>>]
        IN
        IF NonEmpty(insight_title) /\ NonEmpty(insight_content)
        THEN IF createRaises
             THEN [made EXCEPT !.step.create = "raised"]
             ELSE [made EXCEPT !.exc = FALSE, !.step.exc = FALSE,
                               !.step.create = "stored",
                               !.rows = <<InsightRow(insight_title, insight_content,
                                                     user, automated)>>]
        ELSE [made EXCEPT !.exc = FALSE, !.step.exc = FALSE]

LogLine(kind, username) == [kind |-> kind, username |-> username]

\* handle's loop body fetching the external context again for each user
HandleLoopBody_refetching(user, resp, ext, metricsRaises, createRaises) ==
    LET o == PipelineBody(user, resp, ext, TRUE, metricsRaises, createRaises)
    IN  [exc |-> FALSE, rows |-> o.rows,
         calls |-> <<"inflation", "alphavantage">> \o o.calls, step |-> o.step,
         log |-> IF o.exc THEN <<LogLine("batch_error", user)>>
                 ELSE IF o.rows # <<>> THEN <<LogLine("automated_ok", user)>>
                 ELSE <<>>]

\* handle's loop body without its except clause: the exception leaves the loop
HandleLoopBody_uncaught(user, resp, ext, metricsRaises, createRaises) ==
    LET o == PipelineBody(user, resp, ext, TRUE, metricsRaises, createRaises)
    IN  [exc |-> o.exc, rows |-> o.rows, calls |-> o.calls, step |-> o.step,
         log |-> IF o.rows # <<>> THEN <<LogLine("automated_ok", user)>>
                 ELSE <<>>]

\* handle's loop body with its except clause (148-166)
HandleLoopBody(user, resp, ext, metricsRaises, createRaises) ==
    LET o == PipelineBody(user, resp, ext, TRUE,
                          metricsRaises, createRaises)
    IN  [exc |-> FALSE, rows |-> o.rows, calls |-> o.calls, step |-> o.step,
         log |-> IF o.exc THEN <<LogLine("batch_error", user)>>
                 ELSE IF o.rows # <<>> THEN <<LogLine("automated_ok", user)>>
                 ELSE <<>>]

\* generate_user_insight creating its row with is_automated=True
generate_user_insight_automated(user, resp, ext, metricsRaises, createRaises) ==
    LET o == PipelineBody(user, resp, ext, TRUE, metricsRaises, createRaises)
    IN  [exc |-> FALSE, rows |-> o.rows, calls |-> o.calls, step |-> o.step,
         log |-> IF o.exc THEN <<LogLine("user_error", user)>>
                 ELSE IF o.rows # <<>> THEN <<LogLine("requested_ok", user)>>
                 ELSE <<>>]

\* generate_user_insight (168-190)
generate_user_insight(user, resp, ext, metricsRaises, createRaises) ==
    LET o == PipelineBody(user, resp, ext, FALSE,
                          metricsRaises, createRaises)
    IN  [exc |-> FALSE, rows |-> o.rows, calls |-> o.calls, step |-> o.step,
         log |-> IF o.exc THEN <<LogLine("user_error", user)>>
                 ELSE IF o.rows # <<>> THEN <<LogLine("requested_ok", user)>>
                 ELSE <<>>]

\* handle without its "except User.DoesNotExist" clause
UserNotFound_uncaught(username) ==
    [exc |-> TRUE, rows |-> <<>>, calls |-> <<>>, log |-> <<>>]

\* handle's "except User.DoesNotExist" clause (142-143)
UserNotFound(username) ==
    [exc |-> FALSE, rows |-> <<>>, calls |-> <<>>,
     log |-> <<LogLine("not_found", username)>>]

\* "if specific_username:" (138)
SelectMode(specific_username) ==
    IF TruthyArg(specific_username) THEN "SingleUser" ELSE "AllUsers"

-----------------------------------------------------------------------------
(* Inputs: what the upstream services and the store may do *)

InflationResponses ==
    [conn : {"ok", "error"}, status : {200, 404, 500},
     json : {"object", "array", "invalid"}, has_rate : BOOLEAN, rate : {0, 3, 12}]

Close(v) == [close_ok |-> TRUE, close |-> v]
BadClose == [close_ok |-> FALSE, close |-> 0]
Dec29 == <<2023, 12, 29>>
Jan05 == <<2024, 1, 5>>
Jan12 == <<2024, 1, 12>>

SeriesSet ==
    { [k \in {} |-> Close(0)],
      [k \in {Jan05} |-> Close(5)],
      [k \in {Dec29, Jan05, Jan12} |->
          IF k = Jan12 THEN Close(9) ELSE IF k = Jan05 THEN Close(5) ELSE Close(4)],
      [k \in {Dec29, Jan05} |-> IF k = Dec29 THEN Close(4) ELSE Close(0)],
      [k \in {Dec29, Jan12} |-> IF k = Jan12 THEN BadClose ELSE Close(4)] }

PrimaryResponses ==
    [conn : {"ok", "error"}, status : {200, 500}, json : {"object", "invalid"},
     has_series : BOOLEAN, series : SeriesSet]

Bar(v) == [has_c |-> TRUE, c |-> v]
NoC == [has_c |-> FALSE, c |-> 0]

SecondaryResponses ==
    [conn : {"ok", "error"}, status : {200, 429}, json : {"object", "invalid"},
     has_results : BOOLEAN,
     results : {<<>>, <<Bar(7)>>, <<NoC>>, <<Bar(0)>>, <<Bar(8), Bar(7)>>}]

\* The pipeline runs see a few of these answers: each source up or down.
InflationUp == [conn |-> "ok", status |-> 200, json |-> "object",
                has_rate |-> TRUE, rate |-> 3]
InflationDown == [InflationUp EXCEPT !.conn = "error"]
PrimaryUp == [conn |-> "ok", status |-> 200, json |-> "object",
              has_series |-> TRUE,
              series |-> [k \in {Jan05, Jan12} |->
                             IF k = Jan12 THEN Close(9) ELSE Close(5)]]
PrimaryDown == [PrimaryUp EXCEPT !.status = 500]
SecondaryUp == [conn |-> "ok", status |-> 200, json |-> "object",
                has_results |-> TRUE, results |-> <<Bar(7)>>]
SecondaryDown == [SecondaryUp EXCEPT !.conn = "error"]

ContextAnswers ==
    { <<InflationUp, PrimaryUp, SecondaryUp>>,
      <<InflationDown, PrimaryDown, SecondaryDown>> }

Chars(n, c) == Rep(c, n)
Body == <<"o", "k">>

TextEmpty == <<>>
\* a first line of 1 + 120 + 3 + 90 + 1 characters whose normal form has 211
TextLong == <<" ">> \o Chars(120, "a") \o <<" ", "\t", " ">> \o Chars(90, "b")
            \o <<" ", "\n">> \o Body \o <<"\n">> \o Body

GenResponses ==
    { [kind |-> "raises", text |-> <<>>],
      [kind |-> "no_candidates", text |-> <<>>] }
    \cup { [kind |-> "text", text |-> t] :
             t \in {TextEmpty, TextLong} }

ArgValues == {None, "", Ghost, "bob"}
Callers == {"bob"}

AllActive == [u \in UserNames |-> TRUE]
CarolInactive == [AllActive EXCEPT !["carol"] = FALSE]

\* The stored categories and a pool of transactions the ledger is drawn from
NameWeeklyIncomeBonus == <<"W", "e", "e", "k", "l", "y", " ", "I", "n",
                           "c", "o", "m", "e", " ", "B", "o", "n", "u",
                           "s">>
NameLivingExpenses == <<"L", "i", "v", "i", "n", "g", " ", "E", "x", "p",
                        "e", "n", "s", "e", "s">>
NameSavings == <<"S", "a", "v", "i", "n", "g", "s">>
NameINVESTMENTS == <<"I", "N", "V", "E", "S", "T", "M", "E", "N", "T",
                     "S">>
NameInvestmentIncome == <<"I", "n", "v", "e", "s", "t", "m", "e", "n", "t",
                          " ", "I", "n", "c", "o", "m", "e">>
NameGroceries == <<"G", "r", "o", "c", "e", "r", "i", "e", "s">>
NameIncome == <<"I", "n", "c", "o", "m", "e">>

Categories ==
    [c \in 1..7 |->
        IF c = 1 THEN [user |-> "alice", name |-> NameWeeklyIncomeBonus]
        ELSE IF c = 2 THEN [user |-> "alice", name |-> NameLivingExpenses]
        ELSE IF c = 3 THEN [user |-> "alice", name |-> NameSavings]
        ELSE IF c = 4 THEN [user |-> "alice", name |-> NameINVESTMENTS]
        ELSE IF c = 5 THEN [user |-> "alice", name |-> NameInvestmentIncome]
        ELSE IF c = 6 THEN [user |-> "alice", name |-> NameGroceries]
        ELSE [user |-> "bob", name |-> NameIncome]]

\* timezone.now().date() of the invocation, as a day number
Today == 100

Tx(i, u, c, a, d) ==
    [id |-> i, user |-> u, category |-> c, amount |-> a, date |-> d]

TransactionPool ==
    { Tx(1, "alice", 1, 1000, Today - 10),
      Tx(2, "alice", 2, 400, Today - 5),
      Tx(3, "alice", 3, 250, Today - 30),
      Tx(4, "alice", 1, 500, Today - 31),
      Tx(5, "alice", 2, 100, Today + 1),
      Tx(6, "alice", 4, 300, Today),
      Tx(7, "alice", 5, 100, Today - 1),
      Tx(8, "alice", 6, 60, Today - 2),
      Tx(9, "bob", 7, 700, Today - 3),
      Tx(10, "alice", 7, 50, Today - 4),
      Tx(11, "alice", 3, 0 - 250, Today - 7),
      Tx(12, "bob", 1, 80, Today - 8) }

MaxLedger == 3

Ledgers == {l \in SUBSET TransactionPool : Cardinality(l) <= MaxLedger}

\* Titles: whitespace, a word of a's, whitespace, a word of b's, whitespace
TitleOf(lead, n1, sep, n2, trail) ==
    lead \o Chars(n1, "a") \o sep \o Chars(n2, "b") \o trail

Margins == {<<>>, <<" ">>, <<"\t", "\n">>}
Separators == {<<>>, <<" ">>, <<" ", " ">>, <<" ", "\t", " ">>, <<"\n">>}
FirstWords == {0, 1, 100, TitleCut - 1, TitleCut, TitleCut + 1}
SecondWords == {0, 1, 2, 3, 100, 104}

\* Callers of the insight listing, and the page parameters they send
\* (<<None>>: no page parameter)
ListCallers == {"bob"}
PageParams == {<<None>>, <<"1">>, <<"x">>}

\* Requests to the transactions endpoint: callers, query parameters
\* (<<>>: parameter absent), and the category and amount of a request body
TxCallers == {"bob"}
NoFilter == [start_date |-> <<>>, end_date |-> <<>>, category |-> <<>>]
TxFilters ==
    {NoFilter,
     [start_date |-> <<Today - 5>>, end_date |-> <<Today>>, category |-> <<7>>]}
TxCategories == {1, 7}
TxAmounts == {5, 9}

\* Rows the Transaction table holds at most
MaxTransactions == 3

\* Transaction tables before the first request: rows entered earlier, through
\* the registered admin site
StoredTransactions ==
    {<<>>,
     <<Tx(1, "bob", 7, 700, Today - 3)>>,
     <<Tx(1, "bob", 7, 700, Today - 3), Tx(2, "alice", 1, 1000, Today - 10)>>,
     <<Tx(1, "bob", 7, 700, Today - 30), Tx(2, "bob", 7, 80, Today - 3)>>}

\* Requests to the monthly-budget endpoint: callers, the month of a request
\* body, the 'month' query parameter, the amount
BudgetCallers == {"alice", "bob"}
Jan01 == <<2024, 1, 1>>
Jan15 == <<2024, 1, 15>>
Feb01 == <<2024, 2, 1>>
BudgetMonths == {Jan01, Jan15, Feb01}
BudgetMonthParams ==
    {[valid |-> TRUE, date |-> Jan15], [valid |-> TRUE, date |-> Feb01],
     [valid |-> FALSE, date |-> Jan01]}
BudgetAmounts == {100, 250}
BudgetSchemas == {"as_submitted", "first_of_month", "unique_month"}

\* Rows the MonthlyBudget table holds at most
MaxBudgets == 3

\* Requests to add_savings: callers and the 'savings_amount' of the body
\* (absent, a JSON string or number by its text, a JSON list, a JSON object)
SavingsCallers == {"alice", "bob"}
AmountAbsent == [kind |-> "absent", text |-> <<>>]
AmountText(text) == [kind |-> "string", text |-> text]
AmountNumber(text) == [kind |-> "number", text |-> text]
PositiveAmounts == {AmountText(<<"5">>), AmountNumber(<<"7">>)}
NonPositiveAmounts == {AmountText(<<"0">>), AmountText(<<"-", "3">>)}
NonNumericAmounts ==
    {AmountText(<<"a", "b", "c">>), AmountText(<<>>),
     AmountText(<<"N", "a", "N">>),
     [kind |-> "list", text |-> <<>>], [kind |-> "object", text |-> <<>>]}
SavingsAmounts ==
    {AmountAbsent} \cup PositiveAmounts \cup NonPositiveAmounts
        \cup NonNumericAmounts

\* The SavingsGoal rows before the first request: bob has a goal, alice has
\* one or none
Goal(goal_amount, current_savings) ==
    [goal_amount |-> goal_amount, current_savings |-> current_savings]
StoredGoals ==
    {[u \in {"bob"} |-> Goal(10, 0)],
     [u \in {"alice", "bob"} |-> IF u = "bob" THEN Goal(10, 0) ELSE Goal(12, 12)],
     [u \in {"alice", "bob"} |-> IF u = "bob" THEN Goal(20, 3) ELSE Goal(12, 0)]}

-----------------------------------------------------------------------------
(* State machine of one Command.handle invocation *)

MaxInsights == 3

NoResponse == [status |-> 0, body |-> <<>>]
NoInput == [fn |-> "none", infl |-> InflationUp, prim |-> PrimaryUp,
            sec |-> SecondaryUp]
NoOutput == [done |-> FALSE, exc |-> FALSE, val |-> 0, calls |-> <<>>]

NoReply == [view |-> "none", user |-> None, status |-> 0, data |-> <<>>]

\* Nothing cached, no REST request made, the REST tables empty
WebIdle ==
    /\ cache = <<>>
    /\ transaction_objects = <<>>
    /\ budgets = <<>>
    /\ goal = <<>>
    /\ reply = NoReply

PipelineInit ==
    /\ is_active \in {AllActive, CarolInactive}
    /\ insights = <<>>
    /\ pc = "Idle"
    /\ arg = None
    /\ origin = "cli"
    /\ external_data = EmptyDict
    /\ users = <<>>
    /\ idx = 1
    /\ calls = <<>>
    /\ steps = <<>>
    /\ log = <<>>
    /\ response = NoResponse
    /\ startLen = 0
    /\ answers = <<>>

\* No invocation running, every user active, no Insight stored
PipelineIdle ==
    /\ is_active = AllActive
    /\ insights = <<>>
    /\ pc = "Idle"
    /\ arg = None
    /\ origin = "cli"
    /\ external_data = EmptyDict
    /\ users = <<>>
    /\ idx = 1
    /\ calls = <<>>
    /\ steps = <<>>
    /\ log = <<>>
    /\ response = NoResponse
    /\ startLen = 0
    /\ answers = <<>>

Init == PipelineInit /\ WebIdle /\ fin = NoInput /\ fout = NoOutput

\* A variant that keeps one row per user: the user's stored row is overwritten.
Insight_objects_update_or_create(table, rows) ==
    IF rows = <<>> THEN table
    ELSE IF \E i \in 1..Len(table) : table[i].user = rows[1].user
         THEN [i \in 1..Len(table) |->
                  IF table[i].user = rows[1].user THEN rows[1] ELSE table[i]]
         ELSE table \o rows

\* Insight.objects.create(...) (157-162, 181-186): the rows the pipeline built
\* are inserted; date_posted orders them after every stored row.
Insight_objects_create(table, rows) == table \o rows

\* Rows the invocation may add: bounds the Insight table of the model.
Room(a) == IF TruthyArg(a) THEN 1 ELSE Len(ActiveUsers(is_active))

\* handle is entered (128-131); the deployment has G_API_KEY set.
Invoke(a, from) ==
    /\ pc = "Idle"
    /\ Len(insights) + Room(a) <= MaxInsights
    /\ pc' = "FetchingContext"
    /\ arg' = a
    /\ origin' = from
    /\ external_data' = EmptyDict
    /\ users' = <<>>
    /\ idx' = 1
    /\ calls' = <<>>
    /\ steps' = <<>>
    /\ log' = <<>>
    /\ response' = NoResponse
    /\ startLen' = Len(insights)
    /\ answers' = <<>>
    /\ UNCHANGED <<is_active, insights, fin, fout, webVars>>

\* manage.py generate_daily_insight [--user NAME], or the scheduler's job
RunCommand == \E a \in ArgValues : Invoke(a, "cli")

\* GeneratePersonalInsightView.create up to call_command (517-519)
HttpCreate == \E u \in Callers : is_active[u] /\ Invoke(u, u)

\* external_data = self.fetch_external_data()  (134), then the branch of 138
\* and, in the batch branch, the evaluation of the users queryset (146-147)
FetchContext ==
    /\ pc = "FetchingContext"
    /\ \E a \in ContextAnswers :
         LET r == fetch_external_data(a[1], a[2], a[3])
         IN  /\ calls' = calls \o r.calls
             /\ answers' = <<a>>
             /\ IF r.exc
                THEN /\ pc' = "Crashed"
                     /\ UNCHANGED <<external_data, users>>
                ELSE /\ external_data' = r.val
                     /\ pc' = SelectMode(arg)
                     /\ users' = IF SelectMode(arg) = "AllUsers"
                                 THEN ActiveUsers(is_active) ELSE <<>>
    /\ UNCHANGED <<is_active, insights, arg, origin, idx, steps, log,
                   response, startLen, fin, fout, webVars>>

\* The --user branch (139-143)
SingleUser ==
    /\ pc = "SingleUser"
    /\ LET u == GetUser(arg)
       IN  \E resp \in GenResponses, metricsRaises \in BOOLEAN,
              createRaises \in BOOLEAN :
             LET o == IF u.exc THEN UserNotFound(arg)
                      ELSE generate_user_insight(u.val, resp, external_data,
                                                 metricsRaises, createRaises)
             IN  /\ insights' = Insight_objects_create(insights, o.rows)
                 /\ calls' = calls \o o.calls
                 /\ log' = log \o o.log
                 /\ steps' = IF u.exc THEN steps ELSE Append(steps, o.step)
                 /\ pc' = IF o.exc THEN "Crashed" ELSE "Done"
    /\ UNCHANGED <<is_active, arg, origin, external_data, users, idx,
                   response, startLen, answers, fin, fout, webVars>>

\* One iteration of "for user in users" (147-166)
BatchUser ==
    /\ pc = "AllUsers"
    /\ idx <= Len(users)
    /\ \E resp \in GenResponses, metricsRaises \in BOOLEAN,
          createRaises \in BOOLEAN :
         LET o == HandleLoopBody(users[idx], resp, external_data,
                                 metricsRaises, createRaises)
         IN  /\ insights' = Insight_objects_create(insights, o.rows)
             /\ calls' = calls \o o.calls
             /\ log' = log \o o.log
             /\ steps' = Append(steps, o.step)
             /\ IF o.exc
                THEN pc' = "Crashed" /\ idx' = idx
                ELSE pc' = pc /\ idx' = idx + 1
    /\ UNCHANGED <<is_active, arg, origin, external_data, users,
                   response, startLen, answers, fin, fout, webVars>>

\* The for loop is exhausted
BatchEnd ==
    /\ pc = "AllUsers"
    /\ idx > Len(users)
    /\ pc' = "Done"
    /\ UNCHANGED <<is_active, insights, arg, origin, external_data, users, idx,
                   calls, steps, log, response, startLen, answers, fin, fout,
                   webVars>>

\* handle returns to the command line or the scheduler; its locals are gone
CommandReturn ==
    /\ pc \in {"Done", "Crashed"}
    /\ origin = "cli"
    /\ pc' = "Idle"
    /\ arg' = None
    /\ external_data' = EmptyDict
    /\ users' = <<>>
    /\ idx' = 1
    /\ calls' = <<>>
    /\ steps' = <<>>
    /\ log' = <<>>
    /\ startLen' = Len(insights)
    /\ answers' = <<>>
    /\ UNCHANGED <<is_active, insights, origin, response, fin, fout, webVars>>

HTTP_400_BAD_REQUEST == 400

\* Insight.objects.filter(user=..., is_automated=False).latest('date_posted')
LatestRequested(rows, user) ==
    LET mine == {i \in 1..Len(rows) :
                    rows[i].user = user /\ ~rows[i].is_automated}
    IN  IF mine = {} THEN Raised
        ELSE Ret(rows[CHOOSE i \in mine : \A j \in mine : j <= i])

\* GeneratePersonalInsightView.create after call_command returned (521-533)
CreateResponse(rows, user, crashed) ==
    IF crashed
    THEN [status |-> 500, body |-> <<>>]      \* the exception leaves the view
    ELSE LET latest_insight == LatestRequested(rows, user)
         IN  IF latest_insight.exc
             THEN [status |-> HTTP_400_BAD_REQUEST, body |-> <<>>]
             ELSE [status |-> HTTP_OK, body |-> <<latest_insight.val>>]

HttpRespond ==
    /\ pc \in {"Done", "Crashed"}
    /\ origin # "cli"
    /\ response' = CreateResponse(insights, origin, pc = "Crashed")
    /\ pc' = "Idle"
    /\ external_data' = EmptyDict
    /\ users' = <<>>
    /\ idx' = 1
    /\ calls' = <<>>
    /\ steps' = <<>>
    /\ log' = <<>>
    /\ answers' = <<>>
    /\ UNCHANGED <<is_active, insights, arg, origin, startLen, fin, fout, webVars>>

Next ==
    \/ RunCommand
    \/ HttpCreate
    \/ FetchContext
    \/ SingleUser
    \/ BatchUser
    \/ BatchEnd
    \/ CommandReturn
    \/ HttpRespond

Spec == Init /\ [][Next]_vars

\* handle is sequential code: once a statement has finished the next one runs,
\* and every upstream call returns or fails
Fairness ==
    /\ WF_vars(FetchContext)
    /\ WF_vars(SingleUser)
    /\ WF_vars(BatchUser)
    /\ WF_vars(BatchEnd)

\* Rows the Insight table holds at most in the specifications below: an
\* invocation starts only if its rows fit
MaxStored == 2

WithinStored == startLen + Room(arg) <= MaxStored

LiveNext ==
    \/ RunCommand /\ WithinStored'
    \/ HttpCreate /\ WithinStored'
    \/ FetchContext
    \/ SingleUser
    \/ BatchUser
    \/ BatchEnd
    \/ CommandReturn
    \/ HttpRespond

SpecLive == Init /\ [][LiveNext]_vars /\ Fairness

-----------------------------------------------------------------------------
(* REST endpoints of core/views.py: Django's cache *)

\* request.user.id: the primary key of the stored user
UserId(u) == CHOOSE i \in 1..Len(UserOrder) : UserOrder[i] = u

\* cache.get(key): the entry, if one is stored and has not timed out
cache_get(c, key) ==
    IF key \in DOMAIN c THEN [hit |-> TRUE, val |-> c[key]]
    ELSE [hit |-> FALSE, val |-> <<>>]

\* cache.set(key, value, timeout=3600)
cache_set(c, key, value) ==
    [k \in DOMAIN c \cup {key} |-> IF k = key THEN value ELSE c[k]]

\* cache.delete(key)
cache_delete(c, key) == [k \in DOMAIN c \ {key} |-> c[k]]

\* An entry reaches its timeout of 3600 seconds and is dropped
CacheExpire ==
    /\ \E key \in DOMAIN cache : cache' = cache_delete(cache, key)
    /\ UNCHANGED <<pipelineVars, fin, fout, transaction_objects, budgets, goal,
                   reply>>

-----------------------------------------------------------------------------
(* InsightViewSet.list *)

Min(a, b) == IF a <= b THEN a ELSE b

\* int(page) of the query parameter: a decimal numeral, else ValueError
IsNumeral(text) ==
    /\ Len(text) > 0
    /\ \A i \in 1..Len(text) : \E d \in 1..10 : DigitChars[d] = text[i]

DigitValue(c) == (CHOOSE d \in 1..10 : DigitChars[d] = c) - 1

RECURSIVE NumeralValue(_)
NumeralValue(text) ==
    IF Len(text) = 0 THEN 0
    ELSE 10 * NumeralValue(SubSeq(text, 1, Len(text) - 1))
         + DigitValue(text[Len(text)])

\* request.query_params.get('page', 1), then int(page) or 1  (547-551)
PageOf(param) ==
    IF param = <<None>> THEN 1
    ELSE IF IsNumeral(param) THEN NumeralValue(param) ELSE 1

\* f"insights_{request.user.id}_page_{page}"
InsightsCacheKey(user, page) ==
    <<"insights_">> \o Str(UserId(user)) \o <<"_page_">> \o Str(page)

\* Insight.objects.order_by('-date_posted'): the newest row first, each row
\* with its primary key
NewestFirst(table) ==
    [i \in 1..Len(table) |->
        [id |-> Len(table) + 1 - i, row |-> table[Len(table) + 1 - i]]]

\* queryset[offset:limit]
Slice(seq, offset, limit) == SubSeq(seq, offset + 1, Min(limit, Len(seq)))

\* InsightSerializer(insights, many=True).data: the owner is not a field
InsightSerializer(keyed) ==
    [i \in 1..Len(keyed) |->
        [id |-> keyed[i].id, title |-> keyed[i].row.title,
         content |-> keyed[i].row.content,
         is_automated |-> keyed[i].row.is_automated]]

\* The body of list below the cache test (561-570)
InsightsResponseData(table, page, page_size) ==
    LET offset == (page - 1) * page_size
        limit == offset + page_size
        total_insights == Len(table)
    IN  [results |-> InsightSerializer(Slice(NewestFirst(table), offset, limit)),
         page |-> page,
         total_pages |-> (total_insights + page_size - 1) \div page_size,
         total_items |-> total_insights]

\* InsightViewSet.list (542-574) for an authenticated user
ListInsights ==
    \E user \in ListCallers, param \in PageParams :
      LET count == Len(insights)
          page_size == IF Min(6, count) = 0 THEN 1 ELSE Min(6, count)
          page == PageOf(param)
          cache_key == InsightsCacheKey(user, page)
          cached_data == cache_get(cache, cache_key)
          response_data == InsightsResponseData(insights, page, page_size)
      IN  /\ is_active[user]
          /\ IF cached_data.hit
             THEN /\ reply' = [view |-> "insights", user |-> user,
                               status |-> HTTP_OK, data |-> cached_data.val]
                  /\ cache' = cache
             ELSE /\ reply' = [view |-> "insights", user |-> user,
                               status |-> HTTP_OK, data |-> response_data]
                  /\ cache' = cache_set(cache, cache_key, response_data)
          /\ UNCHANGED <<pipelineVars, fin, fout, transaction_objects, budgets,
                         goal>>

InsightsNext ==
    \/ RunCommand /\ WithinStored'
    \/ HttpCreate /\ WithinStored'
    \/ FetchContext
    \/ SingleUser
    \/ BatchUser
    \/ BatchEnd
    \/ CommandReturn
    \/ HttpRespond
    \/ ListInsights
    \/ CacheExpire

SpecInsights == Init /\ [][InsightsNext]_vars

-----------------------------------------------------------------------------
(* TransactionViewSet.  The functions perform_create, perform_update and     *)
(* perform_destroy of views.py 180-205 are defined at module level, outside  *)
(* the class: the viewset runs ModelViewSet's own perform_* methods.         *)

\* str() of an optional query parameter inside the f-string: None or its text
KeyPart(p) == IF p = <<>> THEN <<"None">> ELSE Str(p[1])

\* f"transactions_{user.id}_{start_date}_{end_date}_{category_id}"
TransactionsCacheKey(user, f) ==
    <<"transactions_">> \o Str(UserId(user)) \o <<"_">> \o KeyPart(f.start_date)
        \o <<"_">> \o KeyPart(f.end_date) \o <<"_">> \o KeyPart(f.category)

\* Transaction.objects.filter(user=user) and the optional filters (167-173)
TransactionQuery(table, user, f) ==
    SelectSeq(table, LAMBDA t :
        /\ t.user = user
        /\ (f.start_date = <<>> \/ t.date >= f.start_date[1])
        /\ (f.end_date = <<>> \/ t.date <= f.end_date[1])
        /\ (f.category = <<>> \/ t.category = f.category[1]))

\* TransactionViewSet.get_queryset (151-178): a cached list is returned only
\* if it is truthy, that is non-empty; otherwise the query's rows are cached.
\* is_list: the value returned is the cached Python list, not a QuerySet.
get_queryset(c, table, user, f) ==
    LET cache_key == TransactionsCacheKey(user, f)
        cached_data == cache_get(c, cache_key)
        queryset == TransactionQuery(table, user, f)
    IN  IF cached_data.hit /\ cached_data.val # <<>>
        THEN [cache |-> c, rows |-> cached_data.val, is_list |-> TRUE]
        ELSE [cache |-> cache_set(c, cache_key, queryset), rows |-> queryset,
              is_list |-> FALSE]

\* GenericAPIView.get_object on get_queryset's value: get_object_or_404
\* raises ValueError when given a list; else the row of that pk, or 404
get_object(q, pk) ==
    IF q.is_list THEN [exc |-> TRUE, found |-> FALSE, val |-> <<>>]
    ELSE LET hits == SelectSeq(q.rows, LAMBDA t : t.id = pk)
         IN  [exc |-> FALSE, found |-> hits # <<>>, val |-> hits]

\* The primary key given to a new row
NextId(table) ==
    IF table = <<>> THEN 1
    ELSE 1 + (CHOOSE m \in {table[i].id : i \in 1..Len(table)} :
                 \A i \in 1..Len(table) : table[i].id <= m)

\* TransactionSerializer.validate_category, after PrimaryKeyRelatedField
ValidCategory(category, user) ==
    category \in DOMAIN Categories /\ Categories[category].user = user

TxReply(view, user, code, rows, f) ==
    [view |-> view, user |-> user, status |-> code,
     data |-> [rows |-> rows, params |-> f]]

\* GET transactions/: ListModelMixin.list over get_queryset
ListTransactions ==
    \E user \in TxCallers, f \in TxFilters :
      LET q == get_queryset(cache, transaction_objects, user, f)
      IN  /\ cache' = q.cache
          /\ reply' = TxReply("transactions", user, HTTP_OK, q.rows, f)
          /\ UNCHANGED <<pipelineVars, fin, fout, transaction_objects, budgets,
                         goal>>

\* POST transactions/: CreateModelMixin.create with its own perform_create,
\* serializer.save(): 'user' is a read-only field and no user is passed, so
\* the row is inserted without an owner; whether the user column accepts
\* NULL is decided by core/models.py (nullable), else IntegrityError.
CreateTransaction ==
    \E user \in TxCallers, category \in TxCategories, amount \in TxAmounts,
       nullable \in BOOLEAN :
      LET row == Tx(NextId(transaction_objects), None, category, amount, Today)
      IN  /\ Len(transaction_objects) < MaxTransactions
          /\ IF ~ValidCategory(category, user)
             THEN /\ reply' = TxReply("transaction_create", user,
                                      HTTP_400_BAD_REQUEST, <<>>, NoFilter)
                  /\ UNCHANGED transaction_objects
             ELSE IF nullable
             THEN /\ transaction_objects' = Append(transaction_objects, row)
                  /\ reply' = TxReply("transaction_create", user,
                                      201, <<row>>, NoFilter)
             ELSE /\ reply' = TxReply("transaction_create", user, 500,
                                      <<>>, NoFilter)
                  /\ UNCHANGED transaction_objects
          /\ UNCHANGED <<pipelineVars, fin, fout, cache, budgets, goal>>

\* PATCH transactions/<pk>/ with a new amount: UpdateModelMixin.update with
\* its own perform_update, serializer.save()
UpdateTransaction ==
    \E user \in TxCallers, pk \in 1..MaxTransactions, amount \in TxAmounts :
      LET q == get_queryset(cache, transaction_objects, user, NoFilter)
          instance == get_object(q, pk)
      IN  /\ cache' = q.cache
          /\ IF instance.exc
             THEN /\ reply' = TxReply("transaction_update", user, 500,
                                      <<>>, NoFilter)
                  /\ UNCHANGED transaction_objects
             ELSE IF ~instance.found
             THEN /\ reply' = TxReply("transaction_update", user,
                                      404, <<>>, NoFilter)
                  /\ UNCHANGED transaction_objects
             ELSE /\ transaction_objects' =
                        [i \in 1..Len(transaction_objects) |->
                            IF transaction_objects[i].id = pk
                            THEN [transaction_objects[i] EXCEPT !.amount = amount]
                            ELSE transaction_objects[i]]
                  /\ reply' = TxReply("transaction_update", user, HTTP_OK,
                                      <<[instance.val[1] EXCEPT !.amount = amount]>>,
                                      NoFilter)
          /\ UNCHANGED <<pipelineVars, fin, fout, budgets, goal>>

\* DELETE transactions/<pk>/: DestroyModelMixin.destroy with its own
\* perform_destroy, instance.delete()
DestroyTransaction ==
    \E user \in TxCallers, pk \in 1..MaxTransactions :
      LET q == get_queryset(cache, transaction_objects, user, NoFilter)
          instance == get_object(q, pk)
      IN  /\ cache' = q.cache
          /\ IF instance.exc
             THEN /\ reply' = TxReply("transaction_destroy", user, 500,
                                      <<>>, NoFilter)
                  /\ UNCHANGED transaction_objects
             ELSE IF ~instance.found
             THEN /\ reply' = TxReply("transaction_destroy", user,
                                      404, <<>>, NoFilter)
                  /\ UNCHANGED transaction_objects
             ELSE /\ transaction_objects' =
                        SelectSeq(transaction_objects, LAMBDA t : t.id # pk)
                  /\ reply' = TxReply("transaction_destroy", user,
                                      204, instance.val, NoFilter)
          /\ UNCHANGED <<pipelineVars, fin, fout, budgets, goal>>

TransactionsInit ==
    /\ PipelineIdle /\ fin = NoInput /\ fout = NoOutput
    /\ cache = <<>>
    /\ transaction_objects \in StoredTransactions
    /\ budgets = <<>>
    /\ goal = <<>>
    /\ reply = NoReply

TransactionsNext ==
    \/ ListTransactions
    \/ CreateTransaction
    \/ UpdateTransaction
    \/ DestroyTransaction
    \/ CacheExpire

SpecTransactions == TransactionsInit /\ [][TransactionsNext]_vars

-----------------------------------------------------------------------------
(* MonthlyBudgetViewSet.  A date is <<year, month, day>>. *)

Budget(user, month, budget_amount) ==
    [user |-> user, month |-> month, budget_amount |-> budget_amount]

\* date.replace(day=1)
FirstOfMonth(d) == <<d[1], d[2], 1>>

Pad2(n) == IF n < 10 THEN <<"0">> \o Str(n) ELSE Str(n)

\* f"monthly_budget_{user.id}_{month.strftime('%Y-%m')}"
BudgetCacheKey(user, month) ==
    <<"monthly_budget_">> \o Str(UserId(user)) \o <<"_">> \o Str(month[1])
        \o <<"-">> \o Pad2(month[2])

\* MonthlyBudget.objects.filter(user=user, month__year=..., month__month=...)
BudgetsOfMonth(table, user, month) ==
    SelectSeq(table, LAMBDA b :
        b.user = user /\ b.month[1] = month[1] /\ b.month[2] = month[2])

\* MonthlyBudget.objects.filter(user=self.request.user, month=month).exists()
BudgetExists(table, user, month) ==
    \E i \in 1..Len(table) : table[i].user = user /\ table[i].month = month

\* MonthlyBudgetViewSet.get_queryset (277-295).  param.valid: strptime
\* accepts the 'month' parameter, param.date is what it parses to.
budget_get_queryset(c, table, user, param) ==
    IF ~param.valid THEN [cache |-> c, rows |-> <<>>]       \* ValueError
    ELSE LET month == FirstOfMonth(param.date)
             cache_key == BudgetCacheKey(user, month)
             cached_data == cache_get(c, cache_key)
             queryset == BudgetsOfMonth(table, user, month)
         IN  IF cached_data.hit
             THEN [cache |-> c, rows |-> <<cached_data.val>>]
             ELSE IF queryset # <<>>
             THEN [cache |-> cache_set(c, cache_key, queryset[1]),
                   rows |-> queryset]
             ELSE [cache |-> c, rows |-> queryset]

\* GET monthly-budget/?month=...
ListBudgets ==
    \E user \in BudgetCallers, param \in BudgetMonthParams :
      LET q == budget_get_queryset(cache, budgets, user, param)
      IN  /\ cache' = q.cache
          /\ reply' = [view |-> "budgets", user |-> user, status |-> HTTP_OK,
                       data |-> [rows |-> q.rows, before |-> budgets]]
          /\ UNCHANGED <<pipelineVars, fin, fout, transaction_objects, budgets,
                         goal>>

\* serializer.save(user=self.request.user): what MonthlyBudget's save and
\* constraints do is decided by core/models.py.  as_submitted: the row is
\* inserted with the submitted date; first_of_month: save() sets the day to
\* 1; unique_month: it does so and the table has a unique (user, month)
\* constraint, whose violation is an IntegrityError.
BudgetSave(table, user, month, budget_amount, schema) ==
    IF schema = "as_submitted"
    THEN [exc |-> FALSE, table |-> Append(table, Budget(user, month, budget_amount))]
    ELSE IF schema = "unique_month" /\ BudgetExists(table, user, FirstOfMonth(month))
    THEN [exc |-> TRUE, table |-> table]
    ELSE [exc |-> FALSE,
          table |-> Append(table, Budget(user, FirstOfMonth(month), budget_amount))]

\* MonthlyBudgetViewSet.perform_create (297-302) inside CreateModelMixin.create
CreateBudget ==
    \E user \in BudgetCallers, month \in BudgetMonths,
       budget_amount \in BudgetAmounts, schema \in BudgetSchemas :
      /\ Len(budgets) < MaxBudgets
      /\ IF BudgetExists(budgets, user, month)
         THEN /\ reply' = [view |-> "budget_create", user |-> user,
                           status |-> HTTP_400_BAD_REQUEST,
                           data |-> [rows |-> <<Budget(user, month, budget_amount)>>,
                                     before |-> budgets]]
              /\ UNCHANGED budgets
         ELSE LET saved == BudgetSave(budgets, user, month, budget_amount, schema)
              IN  /\ budgets' = saved.table
                  /\ reply' = [view |-> "budget_create", user |-> user,
                               status |-> IF saved.exc THEN 500 ELSE 201,
                               data |-> [rows |-> <<Budget(user, month,
                                                           budget_amount)>>,
                                         before |-> budgets]]
      /\ UNCHANGED <<pipelineVars, fin, fout, cache, transaction_objects, goal>>

BudgetsInit ==
    /\ PipelineIdle /\ fin = NoInput /\ fout = NoOutput
    /\ WebIdle

BudgetsNext ==
    \/ ListBudgets
    \/ CreateBudget
    \/ CacheExpire

SpecBudgets == BudgetsInit /\ [][BudgetsNext]_vars

-----------------------------------------------------------------------------
(* SavingsGoalViewSet *)

\* f"savings_goal_{user.id}"
SavingsGoalCacheKey(user) == <<"savings_goal_">> \o Str(UserId(user))

\* SavingsGoal.objects.filter(user=user)
GoalsOf(goals, user) == IF user \in DOMAIN goals THEN <<goals[user]>> ELSE <<>>

\* SavingsGoalViewSet.get_queryset (388-400)
goal_get_queryset(c, goals, user) ==
    LET cache_key == SavingsGoalCacheKey(user)
        cached_data == cache_get(c, cache_key)
        queryset == GoalsOf(goals, user)
    IN  IF cached_data.hit
        THEN [cache |-> c, rows |-> <<cached_data.val>>]
        ELSE IF queryset # <<>>
        THEN [cache |-> cache_set(c, cache_key, queryset[1]), rows |-> queryset]
        ELSE [cache |-> c, rows |-> queryset]

\* GET savings-goal/
ListSavingsGoal ==
    \E user \in SavingsCallers :
      LET q == goal_get_queryset(cache, goal, user)
      IN  /\ cache' = q.cache
          /\ reply' = [view |-> "savings_goal", user |-> user,
                       status |-> HTTP_OK, data |-> [rows |-> q.rows]]
          /\ UNCHANGED <<pipelineVars, fin, fout, transaction_objects, budgets,
                         goal>>

\* goal.is_goal_reached()
is_goal_reached(g) == g.current_savings >= g.goal_amount

IsSignedNumeral(text) ==
    /\ Len(text) > 0
    /\ IF text[1] \in {"-", "+"} THEN IsNumeral(Tail(text)) ELSE IsNumeral(text)

SignedValue(text) ==
    IF text[1] = "-" THEN 0 - NumeralValue(Tail(text))
    ELSE IF text[1] = "+" THEN NumeralValue(Tail(text))
    ELSE NumeralValue(text)

NoDecimal(exception) == [exc |-> exception, nan |-> FALSE, val |-> 0]

\* Decimal(savings_amount): a str or number that spells a number gives its
\* value and 'NaN' gives the NaN; any other str raises
\* decimal.InvalidOperation, which is an ArithmeticError; a list raises
\* ValueError and a dict TypeError
DecimalOf(v) ==
    IF v.kind = "list" THEN NoDecimal("ValueError")
    ELSE IF v.kind = "object" THEN NoDecimal("TypeError")
    ELSE IF IsSignedNumeral(v.text)
    THEN [exc |-> "none", nan |-> FALSE, val |-> SignedValue(v.text)]
    ELSE IF v.text = <<"N", "a", "N">>
    THEN [exc |-> "none", nan |-> TRUE, val |-> 0]
    ELSE NoDecimal("InvalidOperation")

\* SavingsGoalViewSet.add_savings below get_object_or_404 (426-450): the
\* status answered and the savings stored.  An exception the view does not
\* catch leaves it: status 500.
add_savings(g, v) ==
    LET same(code) == [status |-> code, current_savings |-> g.current_savings,
                       saved |-> FALSE]
        savings_amount == DecimalOf(v)
    IN  IF is_goal_reached(g) THEN same(HTTP_400_BAD_REQUEST)
        ELSE IF v.kind = "absent" THEN same(HTTP_400_BAD_REQUEST)
        ELSE IF savings_amount.exc \in {"ValueError", "TypeError"}
        THEN same(HTTP_400_BAD_REQUEST)
        ELSE IF savings_amount.exc # "none" THEN same(500)
        ELSE IF savings_amount.nan THEN same(500)   \* NaN <= 0 raises
        ELSE IF savings_amount.val <= 0 THEN same(HTTP_400_BAD_REQUEST)
        ELSE [status |-> HTTP_OK,
              current_savings |-> g.current_savings + savings_amount.val,
              saved |-> TRUE]

\* POST savings-goal/add_savings/ (422-450)
AddSavings ==
    \E user \in SavingsCallers, v \in SavingsAmounts :
      IF user \notin DOMAIN goal                       \* get_object_or_404
      THEN /\ reply' = [view |-> "add_savings", user |-> user, status |-> 404,
                        data |-> [given |-> v, before |-> <<>>]]
           /\ UNCHANGED <<pipelineVars, fin, fout, cache, transaction_objects,
                          budgets, goal>>
      ELSE LET r == add_savings(goal[user], v)
           IN  /\ goal' = [goal EXCEPT ![user].current_savings = r.current_savings]
               /\ cache' = IF r.saved
                           THEN cache_delete(cache, SavingsGoalCacheKey(user))
                           ELSE cache
               /\ reply' = [view |-> "add_savings", user |-> user,
                            status |-> r.status,
                            data |-> [given |-> v, before |-> <<goal[user]>>]]
               /\ UNCHANGED <<pipelineVars, fin, fout, transaction_objects,
                              budgets>>

SavingsInit ==
    /\ PipelineIdle /\ fin = NoInput /\ fout = NoOutput
    /\ cache = <<>>
    /\ transaction_objects = <<>>
    /\ budgets = <<>>
    /\ goal \in StoredGoals
    /\ reply = NoReply

SavingsNext ==
    \/ ListSavingsGoal
    \/ AddSavings
    \/ CacheExpire

SpecSavings == SavingsInit /\ [][SavingsNext]_vars

-----------------------------------------------------------------------------
(* Stand-alone runs of the two fetchers over every modelled answer *)

FetchInputs ==
    { [fn |-> "inflation", infl |-> r, prim |-> PrimaryUp, sec |-> SecondaryUp] :
        r \in InflationResponses }
    \cup
    { [fn |-> "stock", infl |-> InflationUp, prim |-> q[1], sec |-> q[2]] :
        q \in PrimaryResponses \X SecondaryResponses }

FetchInit == PipelineIdle /\ WebIdle /\ fin \in FetchInputs /\ fout = NoOutput

Finished(o) == [done |-> TRUE, exc |-> o.exc, val |-> o.val, calls |-> o.calls]

RunInflation ==
    /\ fin.fn = "inflation"
    /\ ~fout.done
    /\ fout' = Finished(fetch_inflation_rate_africa(fin.infl))
    /\ UNCHANGED <<pipelineVars, webVars, fin>>

RunStock ==
    /\ fin.fn = "stock"
    /\ ~fout.done
    /\ fout' = Finished(fetch_stock_market_index(fin.prim, fin.sec))
    /\ UNCHANGED <<pipelineVars, webVars, fin>>

FetchNext == RunInflation \/ RunStock

SpecFetch == FetchInit /\ [][FetchNext]_vars

-----------------------------------------------------------------------------
(* Stand-alone runs of calculate_user_financial_metrics over drawn ledgers *)

MetricsInputs ==
    { [fn |-> "metrics", user |-> u,
       store |-> [categories |-> Categories, transactions |-> l],
       today |-> Today] :
        u \in {"alice", "bob"}, l \in Ledgers }

MetricsInit == PipelineIdle /\ WebIdle /\ fin \in MetricsInputs /\ fout = NoOutput

RunMetrics ==
    /\ fin.fn = "metrics"
    /\ ~fout.done
    /\ fout' = Finished(calculate_user_financial_metrics(fin.user, fin.store,
                                                         fin.today))
    /\ UNCHANGED <<pipelineVars, webVars, fin>>

MetricsNext == RunMetrics

SpecMetrics == MetricsInit /\ [][MetricsNext]_vars

-----------------------------------------------------------------------------
(* Stand-alone runs of the narrative generator over fetched contexts *)

SampleMetrics ==
    { calculate_user_financial_metrics(
          u, [categories |-> Categories,
              transactions |-> {t \in TransactionPool : t.id \in {1, 2, 9}}],
          Today).val : u \in {"alice", "bob"} }

NarrativeInputs ==
    { [fn |-> "narrative", infl |-> i, prim |-> q[1], sec |-> q[2],
       resp |-> g, metrics |-> m] :
        i \in InflationResponses,
        q \in {PrimaryUp, PrimaryDown} \X {SecondaryUp, SecondaryDown},
        g \in {[kind |-> "raises", text |-> <<>>],
               [kind |-> "text", text |-> TextLong]},
        m \in SampleMetrics }

NarrativeInit == PipelineIdle /\ WebIdle /\ fin \in NarrativeInputs /\ fout = NoOutput

\* fetch_external_data (134), then generate_personalized_insight on its
\* result: the prompt sent to the service and the narrative returned
RunNarrative ==
    /\ fin.fn = "narrative"
    /\ ~fout.done
    /\ LET ext == fetch_external_data(fin.infl, fin.prim, fin.sec).val
           o == generate_personalized_insight(fin.resp, fin.metrics, ext)
       IN  fout' = [done |-> TRUE, exc |-> o.exc, val |-> o.val,
                    calls |-> o.calls, prompt |-> Prompt(fin.metrics, ext)]
    /\ UNCHANGED <<pipelineVars, webVars, fin>>

NarrativeNext == RunNarrative

SpecNarrative == NarrativeInit /\ [][NarrativeNext]_vars

-----------------------------------------------------------------------------
(* Stand-alone runs of truncate_title, applied once and then to its result *)

TitleInputs ==
    { [fn |-> "title", lead |-> l, n1 |-> a, sep |-> m, n2 |-> b,
       trail |-> t, title |-> TitleOf(l, a, m, b, t)] :
        l \in Margins, a \in FirstWords, m \in Separators,
        b \in SecondWords, t \in Margins }

TitleInit == PipelineIdle /\ WebIdle /\ fin \in TitleInputs /\ fout = NoOutput

Normalise ==
    /\ fin.fn = "title"
    /\ ~fout.done
    /\ fout' = [done |-> TRUE, exc |-> FALSE, val |-> truncate_title(fin.title),
                calls |-> <<>>, again |-> <<>>]
    /\ UNCHANGED <<pipelineVars, webVars, fin>>

NormaliseAgain ==
    /\ fin.fn = "title"
    /\ fout.done
    /\ fout.again = <<>>
    /\ fout' = [fout EXCEPT !.again = <<truncate_title(fout.val)>>]
    /\ UNCHANGED <<pipelineVars, webVars, fin>>

TitleNext == Normalise \/ NormaliseAgain

SpecTitle == TitleInit /\ [][TitleNext]_vars

-----------------------------------------------------------------------------
(* Properties *)

Steps == 1..Len(steps)

\* Rows the running (or just answered) invocation added to the table
NewRows == {insights[j] : j \in (startLen + 1)..Len(insights)}

NewRowsOf(u) == {r \in NewRows : r.user = u}

FallbackOf(st) == generate_fallback_insight([username |-> st.user], external_data)

Count(seq, x) == Cardinality({i \in 1..Len(seq) : seq[i] = x})

BatchRun == SelectMode(arg) = "AllUsers"

\* C1: when the generation service returns an empty string without raising,
\* generate_personalized_insight yields the fallback title and body, and that
\* fallback is recorded as the user's Insight.
C1_EmptyTextFallsBack ==
    \A i \in Steps :
        steps[i].generation = "empty" =>
            /\ steps[i].narrative = <<FallbackOf(steps[i])>>
            /\ steps[i].create = "stored" =>
                 \E r \in NewRowsOf(steps[i].user) :
                     r.title = FallbackTitle

\* C2: whenever the generation call or the parsing of its response raises,
\* generate_personalized_insight returns the fallback narrative (title
\* 'Essential Financial Wellness Tips') instead of raising, and the
\* orchestrator goes on to create an Insight with that title for the user:
\* the row is in the table unless Insight.objects.create itself raised.
C2_RaisedGenerationFallsBack ==
    \A i \in Steps :
        steps[i].generation = "raised" =>
            /\ steps[i].narrative = <<FallbackOf(steps[i])>>
            /\ steps[i].narrative[1].title = FallbackTitle
            /\ steps[i].create \in {"stored", "raised"}
            /\ steps[i].create = "stored" =>
                 \E r \in NewRowsOf(steps[i].user) :
                     /\ r.title = FallbackTitle
                     /\ r.content = FallbackOf(steps[i]).content
                     /\ r.is_automated = steps[i].automated
    /\ pc # "Crashed"

C2_Witness ==
    /\ pc = "Done"
    /\ \E i \in Steps :
         /\ steps[i].generation = "raised"
         /\ steps[i].create = "stored"
         /\ \E r \in NewRowsOf(steps[i].user) : r.title = FallbackTitle

\* C3: in a finished batch run, if processing user k raised, every other
\* active user was still processed and received its Insight row, user k
\* received none, and the failure was logged with user k's username.
C3_BatchFailureIsolated ==
    (pc = "Done" /\ BatchRun) =>
        /\ Len(steps) = Len(users)
        /\ \A k \in Steps :
             steps[k].exc =>
                /\ steps[k].user = users[k]
                /\ NewRowsOf(users[k]) = {}
                /\ \E l \in 1..Len(log) : log[l] = LogLine("batch_error", users[k])
                /\ \A j \in Steps \ {k} :
                     ~steps[j].exc => NewRowsOf(users[j]) # {}

\* C4: every Insight row has a title of at most 200 characters.
C4_TitleWithinLimit ==
    \A j \in 1..Len(insights) : Len(insights[j].title) <= TitleLimit

C4_Witness ==
    /\ pc = "Done"
    /\ \E i \in Steps :
         /\ steps[i].narrative # <<>>
         /\ Len(steps[i].narrative[1].title) > TitleLimit
         /\ \E r \in NewRowsOf(steps[i].user) :
              /\ Len(r.title) = TitleLimit
              /\ SubSeq(r.title, TitleCut + 1, TitleLimit) = Ellipsis

\* C5: in one invocation the external context is fetched exactly once, before
\* any user is processed; every narrative generation of the invocation is
\* given that same value; no context call is made during the user loop.
C5_ContextFetchedOnce ==
    /\ pc = "FetchingContext" => calls = <<>> /\ steps = <<>>
    /\ pc \in {"SingleUser", "AllUsers", "Done"} =>
         /\ Count(calls, "inflation") = 1
         /\ Count(calls, "alphavantage") = 1
         /\ Count(calls, "polygon") <= 1
         /\ \A i, j \in 1..Len(calls) :
              (i < j /\ calls[i] = "genai") => calls[j] = "genai"
         /\ Count(calls, "genai") = Cardinality({i \in Steps : steps[i].ext # <<>>})
         /\ \A i \in Steps : steps[i].ext \in {<<>>, <<external_data>>}

C5_Witness ==
    /\ pc = "Done"
    /\ Len(steps) = 3
    /\ \A i \in Steps : steps[i].ext = <<external_data>>
    /\ "inflation_rate" \in DOMAIN external_data
    /\ external_data["inflation_rate"] # 0

\* C6: every Insight created by an invocation with a user identifier belongs
\* to the named user and has is_automated = false; every Insight created by
\* an invocation without one has is_automated = true and belongs to a user
\* that was active when the users were enumerated.
C6_TriggerPathDecidesRow ==
    \A r \in NewRows :
        IF BatchRun
        THEN /\ r.is_automated
             /\ \E k \in 1..Len(users) : users[k] = r.user
             /\ is_active[r.user]
        ELSE /\ ~r.is_automated
             /\ r.user = arg

C6_Witness ==
    /\ pc = "Done"
    /\ ~BatchRun
    /\ NewRowsOf(arg) # {}
    /\ \E j \in 1..startLen : insights[j].is_automated

\* C7: an invocation whose user identifier matches no stored user reports
\* "not found", creates no Insight, does not run the batch, and does not raise.
C7_UnknownUserReported ==
    (pc \notin {"Idle", "FetchingContext"} /\ ~BatchRun /\ GetUser(arg).exc) =>
        /\ pc \in {"SingleUser", "Done"}
        /\ users = <<>>
        /\ steps = <<>>
        /\ NewRows = {}
        /\ Count(calls, "genai") = 0
        /\ pc = "Done" => log = <<LogLine("not_found", arg)>>

C7_Witness ==
    /\ pc = "Done"
    /\ arg = Ghost
    /\ log = <<LogLine("not_found", Ghost)>>
    /\ Len(insights) > 0

\* C8: the on-demand endpoint returns the caller's newest non-automated
\* Insight, and answers with a 400-class error when the invocation it
\* triggered produced no Insight for the caller.
C8_NoStaleInsightReturned ==
    (pc = "Idle" /\ response # NoResponse) =>
        IF NewRowsOf(origin) = {}
        THEN response.status \in 400..499
        ELSE /\ response.status = HTTP_OK
             /\ response.body = <<insights[Len(insights)]>>

-----------------------------------------------------------------------------
(* Properties of the fetchers, under SpecFetch *)

\* C9: fetch_inflation_rate_africa never raises; it returns the response's
\* rate for a 200 response that carries the field, and 0 when the request or
\* the decoding fails, the status is not 200, or the field is missing.
C9_InflationZeroUnlessGood ==
    (fout.done /\ fin.fn = "inflation") =>
        /\ ~fout.exc
        /\ fout.val = IF /\ fin.infl.conn = "ok"
                         /\ fin.infl.status = 200
                         /\ fin.infl.json = "object"
                         /\ fin.infl.has_rate
                      THEN fin.infl.rate
                      ELSE 0

\* Days since a fixed origin: orders the date keys as the calendar does
Ordinal(d) == d[1] * 372 + d[2] * 31 + d[3]

MostRecent(series) ==
    CHOOSE k \in DOMAIN series : \A j \in DOMAIN series : Ordinal(j) <= Ordinal(k)

PrimarySucceeds(prim) ==
    /\ prim.conn = "ok"
    /\ prim.status = 200
    /\ prim.json = "object"
    /\ prim.has_series
    /\ DOMAIN prim.series # {}
    /\ prim.series[MostRecent(prim.series)].close_ok

SecondarySucceeds(sec) ==
    /\ sec.conn = "ok"
    /\ sec.status = 200
    /\ sec.json = "object"
    /\ sec.has_results
    /\ sec.results # <<>>
    /\ sec.results[1].has_c

\* C10: fetch_stock_market_index never raises; the secondary provider is
\* called exactly when the primary attempt failed, and after it; the result
\* is the primary's most recent close, else the secondary's first close,
\* else 0.
C10_StockFallbackOrder ==
    (fout.done /\ fin.fn = "stock") =>
        /\ ~fout.exc
        /\ fout.calls = IF PrimarySucceeds(fin.prim)
                        THEN <<"alphavantage">>
                        ELSE <<"alphavantage", "polygon">>
        /\ fout.val = IF PrimarySucceeds(fin.prim)
                      THEN fin.prim.series[MostRecent(fin.prim.series)].close
                      ELSE IF SecondarySucceeds(fin.sec)
                           THEN fin.sec.results[1].c
                           ELSE 0

C10_Witness ==
    /\ fout.done
    /\ fin.fn = "stock"
    /\ fin.prim.conn = "ok"
    /\ fin.prim.status # 200
    /\ fout.calls = <<"alphavantage", "polygon">>
    /\ fout.val = 7

-----------------------------------------------------------------------------
(* Properties of the Metrics Aggregator, under SpecMetrics *)

MetricsDone == fout.done /\ fin.fn = "metrics"

Buckets == {"income", "expense", "savings", "investment"}

\* The total the metrics record reports for a bucket
ReportedTotal(m, b) ==
    IF b = "income" THEN m.total_income
    ELSE IF b = "expense" THEN m.total_expenses
    ELSE IF b = "savings" THEN m.total_savings
    ELSE m.total_investments

\* The bucket keywords each stored category name contains, read off the names
\* without regard to case
NameHas ==
    [c \in 1..7 |->
        IF c = 1 THEN {"income"}             \* Weekly Income Bonus
        ELSE IF c = 2 THEN {"expense"}       \* Living Expenses
        ELSE IF c = 3 THEN {"savings"}       \* Savings
        ELSE IF c = 4 THEN {"investment"}    \* INVESTMENTS
        ELSE IF c = 5 THEN {"investment", "income"}   \* Investment Income
        ELSE IF c = 6 THEN {}                \* Groceries
        ELSE {"income"}]                     \* Income

\* today - 30 days <= d <= today
InWindow(d) == fin.today - 30 <= d /\ d <= fin.today

\* Sum of the amounts of a set of pool transactions, by id
RECURSIVE TotalUpTo(_, _)
TotalUpTo(rows, n) ==
    IF n = 0 THEN 0
    ELSE TotalUpTo(rows, n - 1)
         + (IF \E t \in rows : t.id = n
            THEN (CHOOSE t \in rows : t.id = n).amount ELSE 0)

Total(rows) == TotalUpTo(rows, Cardinality(TransactionPool))

\* What the metrics of fin.user would report over a given ledger
ReportOver(ledger) ==
    calculate_user_financial_metrics(
        fin.user, [fin.store EXCEPT !.transactions = ledger], fin.today).val

\* t's amount is part of the reported total of bucket b
Contributes(t, b) ==
    ReportedTotal(fout.val, b)
        - ReportedTotal(ReportOver(fin.store.transactions \ {t}), b) = t.amount

\* C13: whenever the user's total_income over the window is 0,
\* calculate_user_financial_metrics completes without a division error and
\* returns savings_rate = 0 and debt_to_income_ratio = 0, whatever the
\* expense and savings totals are.
C13_ZeroIncomeZeroRates ==
    (/\ MetricsDone
     /\ BucketTotal(fin.store.transactions, fin.user,
                    CategoryIds(fin.store.categories, fin.user, KwIncome),
                    fin.today - WindowDays) = 0) =>
        /\ ~fout.exc
        /\ fout.val.total_income = 0
        /\ fout.val.savings_rate = Whole(0)
        /\ fout.val.debt_to_income_ratio = Whole(0)

C13_Witness ==
    /\ MetricsDone
    /\ ~fout.exc
    /\ fout.val.total_income = 0
    /\ fout.val.total_expenses > 0
    /\ fout.val.total_savings > 0
    /\ fout.val.savings_rate = Whole(0)
    /\ fout.val.debt_to_income_ratio = Whole(0)

\* The ledger of the worked example: income 1000 ten days ago, expense 400
\* five days ago, nothing else
ExampleLedger ==
    {t \in TransactionPool : t.id \in {1, 2}}

\* C14: whenever total_income > 0 the metrics record satisfies
\* savings_rate = total_savings / total_income * 100,
\* debt_to_income_ratio = (total_expenses - total_savings) / total_income * 100
\* and net_income = total_income - total_expenses; income 1000 with expenses
\* 400 and no savings gives net_income 600, savings_rate 0 and
\* debt_to_income_ratio 40.
C14_RatesFromTotals ==
    MetricsDone =>
        /\ ~fout.exc
        /\ LET m == fout.val
           IN  /\ m.net_income = m.total_income - m.total_expenses
               /\ m.total_income > 0 =>
                    /\ m.savings_rate.den > 0
                    /\ m.savings_rate.num * m.total_income
                         = m.total_savings * 100 * m.savings_rate.den
                    /\ m.debt_to_income_ratio.den > 0
                    /\ m.debt_to_income_ratio.num * m.total_income
                         = (m.total_expenses - m.total_savings) * 100
                             * m.debt_to_income_ratio.den
               /\ (fin.user = "alice"
                   /\ fin.store.transactions = ExampleLedger) =>
                    /\ m.total_income = 1000
                    /\ m.total_expenses = 400
                    /\ m.net_income = 600
                    /\ m.savings_rate = Whole(0)
                    /\ m.debt_to_income_ratio = Whole(40)

C14_Witness ==
    /\ MetricsDone
    /\ fin.user = "alice"
    /\ fin.store.transactions = ExampleLedger
    /\ fout.val.total_income = 1000
    /\ fout.val.net_income = 600
    /\ fout.val.debt_to_income_ratio = Whole(40)

\* C15: each bucket total is the sum of exactly those transactions of the
\* user in the bucket's categories that are dated d with
\* today - 30 days <= d <= today: one dated 30 days ago is counted, one dated
\* 31 days ago or after the invocation date is not.
C15_WindowBothEnds ==
    MetricsDone =>
        /\ ~fout.exc
        /\ \A kw \in {KwIncome, KwExpense, KwSavings, KwInvestment} :
             LET ids == CategoryIds(fin.store.categories, fin.user, kw)
                 b == IF kw = KwIncome THEN "income"
                      ELSE IF kw = KwExpense THEN "expense"
                      ELSE IF kw = KwSavings THEN "savings" ELSE "investment"
             IN  ReportedTotal(fout.val, b)
                   = Total({t \in fin.store.transactions :
                              /\ t.user = fin.user
                              /\ t.category \in ids
                              /\ InWindow(t.date)})

\* C16: a transaction contributes to a bucket total if and only if it belongs
\* to the user, lies in the window, and its category is owned by the user
\* with a name containing the bucket keyword in any case; otherwise it
\* changes no total; a bucket no transaction matches totals 0.
C16_ContributesIffMatching ==
    MetricsDone =>
        /\ ~fout.exc
        /\ \A b \in Buckets :
             LET matching ==
                   {t \in fin.store.transactions :
                      /\ t.user = fin.user
                      /\ InWindow(t.date)
                      /\ fin.store.categories[t.category].user = fin.user
                      /\ b \in NameHas[t.category]}
             IN  /\ \A t \in fin.store.transactions :
                      Contributes(t, b) <=> t \in matching
                 /\ matching = {} => ReportedTotal(fout.val, b) = 0

\* C17: the classification is a partition: the category of every transaction
\* is assigned to at most one of the four buckets, and the transaction's
\* amount is counted in at most one of the four totals.
C17_BucketsDisjoint ==
    MetricsDone =>
        \A t \in fin.store.transactions :
            /\ Cardinality(
                 {kw \in {KwIncome, KwExpense, KwSavings, KwInvestment} :
                    t.category \in CategoryIds(fin.store.categories,
                                               fin.user, kw)}) <= 1
            /\ Cardinality({b \in Buckets : Contributes(t, b)}) <= 1

-----------------------------------------------------------------------------
(* Properties of title normalisation, under SpecTitle *)

TitleDone == fout.done /\ fin.fn = "title"

\* No leading or trailing whitespace, and no whitespace but single spaces
SingleSpaced(t) ==
    /\ t # <<>> => ~IsSpace(t[1]) /\ ~IsSpace(t[Len(t)])
    /\ \A i \in 1..Len(t) :
         IsSpace(t[i]) => t[i] = " " /\ ~IsSpace(t[i + 1])

NormalForm ==
    Chars(fin.n1, "a")
    \o (IF fin.n1 > 0 /\ fin.n2 > 0 /\ fin.sep # <<>> THEN <<" ">> ELSE <<>>)
    \o Chars(fin.n2, "b")

-----------------------------------------------------------------------------
(* Further properties of the pipeline, under Spec *)

\* The inflation answer is unusable: no connection, a non-200 status, a body
\* that is not a JSON object, or no "rate" field
InflationFails(infl) ==
    \/ infl.conn = "error"
    \/ infl.status # 200
    \/ infl.json # "object"
    \/ ~infl.has_rate

Unavailable == [k \in {"inflation_rate", "stock_index"} |-> 0]

\* C11: when the inflation call and both stock-index calls fail, the external
\* context is inflation_rate = 0 and stock_index = 0, the invocation does not
\* raise, and every user whose processing did not itself raise gets an
\* Insight row (generated or fallback).
C11_TotalFetchFailureProceeds ==
    (/\ answers # <<>>
     /\ InflationFails(answers[1][1])
     /\ ~PrimarySucceeds(answers[1][2])
     /\ ~SecondarySucceeds(answers[1][3])) =>
        /\ pc # "Crashed"
        /\ external_data = Unavailable
        /\ \A i \in Steps :
             ~steps[i].exc => NewRowsOf(steps[i].user) # {}

\* C20: each per-user pipeline run that finishes without an exception appends
\* exactly one new Insight row of that user to the table and leaves every
\* earlier row in place (no deduplication, no update in place), so a second
\* batch over the same data gives each such user a second row.
C20_EveryRunAddsOneRow ==
    [][(/\ Len(steps') = Len(steps) + 1
        /\ ~steps'[Len(steps')].exc) =>
           \E r \in {insights'[j] : j \in 1..Len(insights')} :
               /\ r.user = steps'[Len(steps')].user
               /\ insights' = Append(insights, r)]_vars

\* The part of a text between the marker a and the next marker b after it
Between(text, a, b) ==
    LET i == CHOOSE k \in 1..Len(text) : text[k] = a
        j == CHOOSE k \in (i + 1)..Len(text) :
                 text[k] = b /\ \A l \in (i + 1)..(k - 1) : text[l] # b
    IN  SubSeq(text, i + 1, j - 1)

NotAvailable == <<"N", "/", "A">>

\* What the claim has a text show for each external value
InflationToShow(infl) ==
    IF InflationFails(infl) THEN NotAvailable ELSE Str(infl.rate)

StockToShow(prim, sec) ==
    IF PrimarySucceeds(prim)
    THEN Str(prim.series[MostRecent(prim.series)].close)
    ELSE IF SecondarySucceeds(sec) THEN Str(sec.results[1].c)
    ELSE NotAvailable

\* C12: an external value whose fetch failed is shown as 'N/A' in the prompt
\* and in the fallback body; the fetched value is shown when (and only when)
\* the fetch succeeded.
C12_UnavailableShownAsNA ==
    (fout.done /\ fin.fn = "narrative") =>
        /\ Between(fout.prompt, "Inflation Rate: ", "%")
             = InflationToShow(fin.infl)
        /\ Between(fout.prompt, "Stock Market Index: ", "<instructions 1-5>")
             = StockToShow(fin.prim, fin.sec)
        /\ fin.resp.kind = "raises" =>
             /\ Between(fout.val.content, "Current Inflation Rate: ", "%")
                  = InflationToShow(fin.infl)
             /\ Between(fout.val.content, "Stock Market Index: ", "<remember>")
                  = StockToShow(fin.prim, fin.sec)

-----------------------------------------------------------------------------
(* Properties of the Insight table and its listing, under SpecInsights *)

IsPrefix(old, new) ==
    /\ Len(old) <= Len(new)
    /\ \A i \in 1..Len(old) : new[i] = old[i]

\* C21: no pipeline invocation and no HTTP insight endpoint modifies or deletes
\* an existing Insight: over every step of batch runs, on-demand runs and
\* listings, each stored row keeps its title, content, owner and is_automated
\* flag, and the table only grows.
C21_InsightsOnlyAppended == [][IsPrefix(insights, insights')]_vars

\* A second Insight of the same owner was stored after a listing had shown
\* the first.
C21_Witness ==
    /\ Len(insights) = 2
    /\ insights[1].user = insights[2].user
    /\ reply.view = "insights"
    /\ reply.data.total_items = 1

\* The owner of a listed row
OwnerOf(item) == insights[item.id].user

\* C23: the insight listing returns only Insights owned by the authenticated
\* caller: every row of the response belongs to the caller.
C23_ListingOnlyOwnInsights ==
    reply.view = "insights" =>
        \A i \in 1..Len(reply.data.results) :
            OwnerOf(reply.data.results[i]) = reply.user

-----------------------------------------------------------------------------
(* Progress of one invocation, under SpecLive *)

\* The moves of pc the orchestrator's state diagram allows
Edge(from, to) ==
    \/ from = to
    \/ from = "Idle" /\ to = "FetchingContext"
    \/ from = "FetchingContext" /\ to \in {"SingleUser", "AllUsers"}
    \/ from \in {"SingleUser", "AllUsers"} /\ to = "Done"
    \/ from = "Done" /\ to = "Idle"

Attempted == [i \in 1..Len(steps) |-> steps[i].user]

\* In batch mode the users attempted so far are the first idx - 1 active users,
\* and all of them, each once and in order, when Done is reached
BatchProgress ==
    /\ pc = "AllUsers" => Attempted = SubSeq(ActiveUsers(is_active), 1, idx - 1)
    /\ pc = "Done" /\ ~TruthyArg(arg) => Attempted = ActiveUsers(is_active)

\* C22: every invocation follows Idle -> FetchingContext -> (SingleUser |
\* AllUsers) -> Done; once started it eventually reaches Done, and a batch
\* has by then attempted every active user exactly once, one per step.
C22_RunsToDone ==
    /\ [][Edge(pc, pc') /\ Len(steps') <= Len(steps) + 1]_vars
    /\ []BatchProgress
    /\ (pc = "FetchingContext" ~> pc = "Done")

\* A batch over two active users is Done after a failed attempt
C22_Witness ==
    /\ pc = "Done"
    /\ ~TruthyArg(arg)
    /\ Len(steps) = 2
    /\ \E i \in 1..Len(steps) : steps[i].exc

-----------------------------------------------------------------------------
(* Properties of the transactions endpoint, under SpecTransactions *)

\* C24: after a user creates, updates or deletes a transaction, the row is
\* stored with that user as owner, and the user's next list request, with any
\* filters and within the cache timeout, shows the stored rows and not an
\* older cached list.
C24_WritesOwnedAndListed ==
    /\ reply.view = "transaction_create" /\ reply.status # HTTP_400_BAD_REQUEST
           => \E i \in 1..Len(transaction_objects) :
                 /\ transaction_objects[i].id = NextId(transaction_objects) - 1
                 /\ transaction_objects[i].user = reply.user
                 /\ reply.status = 201
    /\ reply.view = "transactions"
           => reply.data.rows =
                  TransactionQuery(transaction_objects, reply.user,
                                   reply.data.params)

-----------------------------------------------------------------------------
(* Properties of the monthly-budget endpoint, under SpecBudgets *)

SameMonth(a, b) == a.user = b.user /\ a.month[1] = b.month[1] /\ a.month[2] = b.month[2]

\* C25: after any sequence of budget creations at most one MonthlyBudget
\* exists per user and calendar month, and a creation for a month in which
\* the user already had a budget, whatever the day of the submitted date, was
\* answered with a validation error and left the table as it was.
C25_OneBudgetPerMonth ==
    /\ \A i, j \in 1..Len(budgets) :
           i # j => ~SameMonth(budgets[i], budgets[j])
    /\ reply.view = "budget_create"
         /\ BudgetsOfMonth(reply.data.before, reply.user,
                           reply.data.rows[1].month) # <<>>
           => reply.status = HTTP_400_BAD_REQUEST /\ budgets = reply.data.before

-----------------------------------------------------------------------------
(* Properties of add_savings, under SpecSavings *)

\* What the answered request was given and found
Given == reply.data.given
Before == reply.data.before[1]

\* C26: add_savings changes the caller's savings goal only on success: a
\* request made when the goal is already reached, or with a missing,
\* non-numeric or non-positive savings_amount, is answered 400 and leaves
\* current_savings unchanged; a successful request adds exactly the positive
\* amount, so current_savings never decreases.
C26_SavingsOnlyOnSuccess ==
    reply.view = "add_savings" /\ reply.data.before # <<>> =>
        LET now == goal[reply.user].current_savings
        IN  /\ now >= Before.current_savings
            /\ (\/ is_goal_reached(Before)
                \/ Given \in {AmountAbsent} \cup NonNumericAmounts
                                             \cup NonPositiveAmounts)
                 => /\ reply.status = HTTP_400_BAD_REQUEST
                    /\ now = Before.current_savings
            /\ reply.status = HTTP_OK
                 => /\ Given \in PositiveAmounts
                    /\ now = Before.current_savings + SignedValue(Given.text)

====
